---- MODULE Spec2Model ----
(***************************************************************************)
(* A model of fake_ntp_server: the NTP fixed-point types NTPShort and      *)
(* NTPTimestamp, the 48-byte NTPPacket codec, and the receive / validate / *)
(* respond loop of fake_server.                                            *)
(*                                                                         *)
(* Representation.                                                         *)
(*  - A byte string is a sequence of numbers in 0..255.                    *)
(*  - A Python long that may need more than 31 bits (the fields of an      *)
(*    NTPTimestamp) is a record [neg, hi, lo] standing for                 *)
(*    (-1)^neg * (hi * 2^16 + lo), with lo in 0..65535, hi >= 0 and        *)
(*    neg = FALSE for zero.  All arithmetic on it is exact.                *)
(*  - A float argument of from_float / from_unix_timestamp is a record     *)
(*    [neg, ihi, ilo, fhi, flo, fx] standing for                           *)
(*    (-1)^neg * (ihi*2^16 + ilo + fhi/2^16 + flo/2^32 + fx/2^34),         *)
(*    fx in 0..3: a dyadic rational, as every float is.  The subtraction   *)
(*    of the integer part and the scaling by a power of two are exact in   *)
(*    binary floating point, so round() sees exactly this value.           *)
(*  - A wall-clock reading of time.time() is a record [sec, frac] standing *)
(*    for sec + frac/2^16 seconds; products are rounded to the nearest     *)
(*    1/2^16 s, as floating point rounds to the nearest representable.     *)
(***************************************************************************)
EXTENDS Integers, Sequences, FiniteSets, TLC

VARIABLES
  pc,           \* position of fake_server: AWAIT_DATAGRAM, VALIDATE, RESPOND, CRASHED
  inbox,        \* datagrams queued in the socket buffer: [data, source]
  nclient,      \* number of datagrams clients have sent so far
  drift_start,  \* time.time() captured before the loop
  now,          \* the latest reading of the wall clock
  source,       \* source address of the datagram being handled
  packet,       \* the decoded request being handled
  cls,          \* the class-level attributes of NTPPacket
  received,     \* history: every datagram recvfrom returned, in order
  stdout,       \* the diagnostics printed, tagged with the datagram's index
  sent,         \* every datagram handed to sendto, in order: [data, dest]
  responded,    \* history: for each sendto, the request's index and the clock
  f_kind,       \* codec harness: which function is applied
  f_in,         \* codec harness: its argument
  f_done,       \* codec harness: whether it has been applied
  f_out         \* codec harness: its result

vars == <<pc, inbox, nclient, drift_start, now, source, packet, cls,
          received, stdout, sent, responded, f_kind, f_in, f_done, f_out>>

server_vars == <<pc, inbox, nclient, drift_start, now, source, packet, cls,
                 received, stdout, sent, responded>>

----------------------------------------------------------------------------
(* Bounds of the model. *)

\* how many datagrams clients send in one run
MaxDatagrams == 2

----------------------------------------------------------------------------
(* Program constants. *)

\* 0x10000, the scale of a 16-bit fraction
Two16 == 65536
\* 0xffff
Mask16 == 65535
\* high and low half of 0x83aa7e80, the NTP/POSIX epoch offset
EpochHi == 33706
EpochLo == 32384
\* the shortest packet from_bytes accepts, and the authenticated length
MinPacketLen == 48
AuthPacketLen == 68
\* the buffer size given to recvfrom
RecvBufSize == 100
\* speed = 0.9996 = SpeedNum / SpeedDen in lowest terms
SpeedNum == 2499
SpeedDen == 2500

----------------------------------------------------------------------------
(* Integer helpers. *)

Min(a, b) == IF a <= b THEN a ELSE b

Abs(a) == IF a < 0 THEN -a ELSE a

RECURSIVE BitOr(_, _)
\* Python's a | b on non-negative integers
BitOr(a, b) ==
  IF a = 0 THEN b
  ELSE IF b = 0 THEN a
  ELSE (IF (a % 2 = 1) \/ (b % 2 = 1) THEN 1 ELSE 0) + 2 * BitOr(a \div 2, b \div 2)

\* Python's data[a:b] on a byte string (0-based, clipped to the string)
Slice(data, a, b) ==
  IF a >= Min(b, Len(data)) THEN <<>> ELSE SubSeq(data, a + 1, Min(b, Len(data)))

----------------------------------------------------------------------------
(* Python longs wider than 31 bits. *)

Long(neg, hi, lo) == [neg |-> neg /\ (hi # 0 \/ lo # 0), hi |-> hi, lo |-> lo]

LongZero == Long(FALSE, 0, 0)

\* 0xffffffff
LongMaxU32 == Long(FALSE, Mask16, Mask16)

\* 0x83aa7e80
LongEpoch == Long(FALSE, EpochHi, EpochLo)

\* |a| < |b|
MagLess(a, b) == a.hi < b.hi \/ (a.hi = b.hi /\ a.lo < b.lo)

\* |a| + |b|, with the sign given
MagAdd(neg, a, b) ==
  Long(neg, a.hi + b.hi + ((a.lo + b.lo) \div Two16), (a.lo + b.lo) % Two16)

\* |a| - |b| for |a| >= |b|, with the sign given
MagSub(neg, a, b) ==
  Long(neg, a.hi - b.hi - (IF a.lo < b.lo THEN 1 ELSE 0), (a.lo - b.lo) % Two16)

\* a + b
LongAdd(a, b) ==
  IF a.neg = b.neg THEN MagAdd(a.neg, a, b)
  ELSE IF MagLess(a, b) THEN MagSub(b.neg, b, a)
  ELSE MagSub(a.neg, a, b)

\* a - b
LongSub(a, b) == LongAdd(a, Long(~b.neg, b.hi, b.lo))

\* a > b
LongGreater(a, b) ==
  IF a.neg # b.neg THEN b.neg
  ELSE IF a.neg THEN MagLess(a, b) ELSE MagLess(b, a)

\* a & 0xffffffff: the two's-complement residue modulo 2^32
LongAnd32(a) ==
  IF ~a.neg THEN Long(FALSE, a.hi % Two16, a.lo)
  ELSE Long(FALSE,
            (Two16 - (a.hi % Two16) - (IF a.lo > 0 THEN 1 ELSE 0)) % Two16,
            (Two16 - a.lo) % Two16)

\* whether a fits an unsigned 32-bit field
IsU32(a) == ~a.neg /\ a.hi \in 0..Mask16 /\ a.lo \in 0..Mask16

----------------------------------------------------------------------------
(* struct.pack / struct.unpack, big-endian.  A pack that raises             *)
(* struct.error is [ok |-> FALSE].                                          *)

Packed(data) == [ok |-> TRUE, data |-> data]

StructError == [ok |-> FALSE, data |-> <<>>]

\* '>H'
pack_H(v) == IF v \in 0..Mask16 THEN Packed(<<v \div 256, v % 256>>) ELSE StructError

unpack_H(d) == d[1] * 256 + d[2]

\* '>I'
pack_I(v) ==
  IF IsU32(v)
  THEN Packed(<<v.hi \div 256, v.hi % 256, v.lo \div 256, v.lo % 256>>)
  ELSE StructError

unpack_I(d) == Long(FALSE, d[1] * 256 + d[2], d[3] * 256 + d[4])

\* 'B'
pack_B(v) == IF v \in 0..255 THEN Packed(<<v>>) ELSE StructError

\* 'b'
pack_b(v) == IF v \in (-128)..127 THEN Packed(<<v % 256>>) ELSE StructError

unpack_b(byte) == IF byte >= 128 THEN byte - 256 ELSE byte

\* concatenation of packed parts: an error anywhere is an error
Cat(a, b) == IF a.ok /\ b.ok THEN Packed(a.data \o b.data) ELSE StructError

----------------------------------------------------------------------------
(* Float arguments. *)

Float(neg, ihi, ilo, fhi, flo, fx) ==
  [neg |-> neg /\ (ihi # 0 \/ ilo # 0 \/ fhi # 0 \/ flo # 0 \/ fx # 0),
   ihi |-> ihi, ilo |-> ilo, fhi |-> fhi, flo |-> flo, fx |-> fx]

\* long(x): truncation toward zero
LongOfFloat(x) == Long(x.neg, x.ihi, x.ilo)

\* long(round((x - long(x)) * 0x100000000)): round() rounds half away from zero
RoundFrac32(x) ==
  LET lo1 == x.flo + (IF x.fx >= 2 THEN 1 ELSE 0)
  IN  Long(x.neg, x.fhi + (lo1 \div Two16), lo1 % Two16)

\* long(round((x - long(x)) * 0x10000)) as an integer
RoundFrac16(x) ==
  LET m == x.fhi + (IF x.flo >= Two16 \div 2 THEN 1 ELSE 0)
  IN  IF x.neg THEN -m ELSE m

\* long(x) as an integer, for arguments below 2^31
IntOfFloat(x) ==
  LET m == x.ihi * Two16 + x.ilo
  IN  IF x.neg THEN -m ELSE m

----------------------------------------------------------------------------
(* class NTPShort *)

NTPShort(seconds, fraction) == [seconds |-> seconds, fraction |-> fraction]

NTPShort_ZERO == NTPShort(0, 0)

NTPShort_from_bytes(data) ==
  IF Len(data) # 4
  THEN [ok |-> FALSE, value |-> NTPShort_ZERO]
  ELSE [ok |-> TRUE,
        value |-> NTPShort(unpack_H(SubSeq(data, 1, 2)), unpack_H(SubSeq(data, 3, 4)))]

\* from_float without the carry: the fraction is left at 0x10000
NTPShort_from_float_NoCarry(value) ==
  NTPShort(IntOfFloat(value), RoundFrac16(value))

NTPShort_from_float(value) ==
  LET seconds  == IntOfFloat(value)
      fraction == RoundFrac16(value)
  IN  IF fraction > Mask16
      THEN NTPShort(seconds + 1, 0)
      ELSE NTPShort(seconds, fraction)

NTPShort_to_bytes(self) == Cat(pack_H(self.seconds), pack_H(self.fraction))

----------------------------------------------------------------------------
(* class NTPTimestamp *)

NTPTimestamp(seconds, fraction) == [seconds |-> seconds, fraction |-> fraction]

NTPTimestamp_ZERO == NTPTimestamp(LongZero, LongZero)

NTPTimestamp_from_bytes(data) ==
  IF Len(data) # 8
  THEN [ok |-> FALSE, value |-> NTPTimestamp_ZERO]
  ELSE [ok |-> TRUE,
        value |-> NTPTimestamp(unpack_I(SubSeq(data, 1, 4)), unpack_I(SubSeq(data, 5, 8)))]

NTPTimestamp_from_unix_timestamp(timestamp) ==
  LET seconds  == LongOfFloat(timestamp)
      rounded  == RoundFrac32(timestamp)
      fraction == IF LongGreater(rounded, LongMaxU32) THEN LongMaxU32 ELSE rounded
  IN  NTPTimestamp(LongAnd32(LongAdd(seconds, LongEpoch)), fraction)

NTPTimestamp_to_bytes(self) == Cat(pack_I(self.seconds), pack_I(self.fraction))

\* seconds - 0x83aa7e80 + float(fraction) / 0x100000000, as the exact rational
\* (the rounding of the sum to 53 significant bits is not modelled)
NTPTimestamp_to_unix_timestamp(self) ==
  LET f     == self.fraction
      whole == Long(f.neg, 0, f.hi \div Two16)
      frac  == Long(f.neg, f.hi % Two16, f.lo)
      ipart == LongAdd(LongSub(self.seconds, LongEpoch), whole)
      fzero == frac.hi = 0 /\ frac.lo = 0
      izero == ipart.hi = 0 /\ ipart.lo = 0
      one   == Long(FALSE, 0, 1)
      comp  == Long(FALSE, (Two16 - frac.hi - (IF frac.lo > 0 THEN 1 ELSE 0)) % Two16,
                    (Two16 - frac.lo) % Two16)
  IN  IF fzero \/ izero \/ ipart.neg = frac.neg
      THEN Float(IF izero THEN frac.neg ELSE ipart.neg,
                 ipart.hi, ipart.lo, frac.hi, frac.lo, 0)
      ELSE LET m == MagSub(FALSE, ipart, one)
           IN  Float(ipart.neg, m.hi, m.lo, comp.hi, comp.lo, 0)

----------------------------------------------------------------------------
(* class NTPPacket *)

\* the class body: the attributes every instance reads until it sets its own
NTPPacket_class ==
  [leap_indicator       |-> 0,
   version              |-> 3,
   mode                 |-> 3,
   stratum              |-> 0,
   poll                 |-> 0,
   precision            |-> 0,
   root_delay           |-> NTPShort_ZERO,
   root_dispersion      |-> NTPShort_ZERO,
   reference_identifier |-> <<0, 0, 0, 0>>,
   reference_timestamp  |-> NTPTimestamp_ZERO,
   origin_timestamp     |-> NTPTimestamp_ZERO,
   receive_timestamp    |-> NTPTimestamp_ZERO,
   transmit_timestamp   |-> NTPTimestamp_ZERO]

\* NTPPacket(): a fresh instance with no attribute of its own, so that every
\* attribute reads the class attribute
NTPPacket(klass) == klass

\* the length test of from_bytes: TRUE when ValueError('packet too short') is raised
PacketTooShort(data) == Len(data) < MinPacketLen /\ Len(data) # AuthPacketLen

\* (b1 >> 6) & 0x3, (b1 >> 3) & 0x7, b1 & 0x7
LeapOf(b1) == (b1 \div 64) % 4

\* the version read with the two-bit mask of the leap indicator
VersionOf_Mask3(b1) == (b1 \div 8) % 4

VersionOf(b1) == (b1 \div 8) % 8

ModeOf(b1) == b1 % 8

\* NTPPacket.from_bytes: [ok |-> FALSE] when an exception is raised
NTPPacket_from_bytes(klass, data) ==
  LET head == Slice(data, 0, 4)
      rd   == NTPShort_from_bytes(Slice(data, 4, 8))
      rp   == NTPShort_from_bytes(Slice(data, 8, 12))
      rt   == NTPTimestamp_from_bytes(Slice(data, 16, 24))
      ot   == NTPTimestamp_from_bytes(Slice(data, 24, 32))
      ct   == NTPTimestamp_from_bytes(Slice(data, 32, 40))
      tt   == NTPTimestamp_from_bytes(Slice(data, 40, 48))
  IN  IF PacketTooShort(data) \/ Len(head) # 4
         \/ ~(rd.ok /\ rp.ok /\ rt.ok /\ ot.ok /\ ct.ok /\ tt.ok)
      THEN [ok |-> FALSE, packet |-> NTPPacket(klass)]
      ELSE [ok |-> TRUE,
            packet |->
              [NTPPacket(klass) EXCEPT
                 !.stratum              = head[2],
                 !.poll                 = unpack_b(head[3]),
                 !.precision            = unpack_b(head[4]),
                 !.leap_indicator       = LeapOf(head[1]),
                 !.version              = VersionOf(head[1]),
                 !.mode                 = ModeOf(head[1]),
                 !.root_delay           = rd.value,
                 !.root_dispersion      = rp.value,
                 !.reference_identifier = Slice(data, 12, 16),
                 !.reference_timestamp  = rt.value,
                 !.origin_timestamp     = ot.value,
                 !.receive_timestamp    = ct.value,
                 !.transmit_timestamp   = tt.value]]

\* leap_indicator << 6 | version << 3 | mode
FirstByte(self) ==
  BitOr(BitOr(self.leap_indicator * 64, self.version * 8), self.mode)

NTPPacket_to_bytes(self) ==
  Cat(Cat(Cat(Cat(Cat(Cat(Cat(Cat(Cat(Cat(
    pack_B(FirstByte(self)),
    pack_B(self.stratum)),
    pack_b(self.poll)),
    pack_b(self.precision)),
    NTPShort_to_bytes(self.root_delay)),
    NTPShort_to_bytes(self.root_dispersion)),
    Packed(self.reference_identifier)),
    NTPTimestamp_to_bytes(self.reference_timestamp)),
    NTPTimestamp_to_bytes(self.origin_timestamp)),
    NTPTimestamp_to_bytes(self.receive_timestamp)),
    NTPTimestamp_to_bytes(self.transmit_timestamp))

----------------------------------------------------------------------------
(* The wall clock. *)

Time(sec, frac) == [sec |-> sec, frac |-> frac]

\* t + d/2^16 seconds
TimeAdd(t, d) == Time(t.sec + ((t.frac + d) \div Two16), (t.frac + d) % Two16)

\* a - b in units of 1/2^16 s
TimeDiff(a, b) == (a.sec - b.sec) * Two16 + (a.frac - b.frac)

\* a <= b
TimeLeq(a, b) == a.sec < b.sec \/ (a.sec = b.sec /\ a.frac <= b.frac)

\* n / d rounded to the nearest integer, for n >= 0
RoundDiv(n, d) == (2 * n + d) \div (2 * d)

\* time_since_start * speed, rounded to the nearest 1/2^16 s
MulSpeed(e) ==
  LET m == Abs(e)
      p == (m \div SpeedDen) * SpeedNum + RoundDiv((m % SpeedDen) * SpeedNum, SpeedDen)
  IN  IF e < 0 THEN -p ELSE p

\* the undrifted clock of the commented-out line 188
ReturnTime_Undrifted(start, t) == t

\* lines 186-187: return_time = drift_start + (time.time() - drift_start) * speed
ReturnTime(start, t) == TimeAdd(start, MulSpeed(TimeDiff(t, start)))

\* a clock reading as the float handed to from_unix_timestamp
FloatOfTime(t) ==
  LET m == IF t.sec >= 0 THEN t.sec
           ELSE IF t.frac = 0 THEN -t.sec ELSE -t.sec - 1
  IN  Float(t.sec < 0, m \div Two16, m % Two16,
            IF t.sec < 0 THEN (Two16 - t.frac) % Two16 ELSE t.frac, 0, 0)

----------------------------------------------------------------------------
(* fake_server *)

\* b'XFAK'
XFAK == <<88, 70, 65, 75>>

\* line 174: packet.version not in (3, 4)
UnsupportedVersion(p) == p.version \notin {3, 4}

\* a check that lets symmetric-active requests through
NotClientRequest_AllowsSymmetric(p) == p.mode \notin {1, 3}

\* line 178: packet.mode != 3
NotClientRequest(p) == p.mode # 3

\* a response that never sets its mode
BuildResponse_ModeUnset(klass, p, return_time) ==
  LET ts == NTPTimestamp_from_unix_timestamp(FloatOfTime(return_time))
  IN  [NTPPacket(klass) EXCEPT
         !.version              = p.version,
         !.stratum              = 1,
         !.reference_identifier = XFAK,
         !.origin_timestamp     = p.transmit_timestamp,
         !.reference_timestamp  = ts,
         !.receive_timestamp    = ts,
         !.transmit_timestamp   = ts]

\* a response that echoes the request's poll interval
BuildResponse_EchoPoll(klass, p, return_time) ==
  LET ts == NTPTimestamp_from_unix_timestamp(FloatOfTime(return_time))
  IN  [NTPPacket(klass) EXCEPT
         !.version              = p.version,
         !.mode                 = 4,
         !.stratum              = 1,
         !.poll                 = p.poll,
         !.reference_identifier = XFAK,
         !.origin_timestamp     = p.transmit_timestamp,
         !.reference_timestamp  = ts,
         !.receive_timestamp    = ts,
         !.transmit_timestamp   = ts]

\* lines 190-198: the response to request p at return_time
BuildResponse(klass, p, return_time) ==
  LET ts == NTPTimestamp_from_unix_timestamp(FloatOfTime(return_time))
  IN  [NTPPacket(klass) EXCEPT
         !.version              = p.version,
         !.mode                 = 4,
         !.stratum              = 1,
         !.reference_identifier = XFAK,
         !.origin_timestamp     = p.transmit_timestamp,
         !.reference_timestamp  = ts,
         !.receive_timestamp    = ts,
         !.transmit_timestamp   = ts]

\* a send that goes out twice
sendto_Twice(outbox, data, address) ==
  Append(Append(outbox, [data |-> data, dest |-> address]),
         [data |-> data, dest |-> address])

\* s.sendto(data, address)
sendto(outbox, data, address) == Append(outbox, [data |-> data, dest |-> address])

----------------------------------------------------------------------------
(* The environment: the datagrams clients send, their addresses, the clock. *)

\* a datagram of n bytes: first byte b1, bytes 2..40 from fill, the rest from
\* tfill; a fill <<a, c>> puts (a * i + c) mod 256 at position i
MkData(n, b1, fill, tfill) ==
  [i \in 1..n |->
     IF i = 1 THEN b1
     ELSE IF i <= 40 THEN (fill[1] * i + fill[2]) % 256
     ELSE (tfill[1] * i + tfill[2]) % 256]

FillVar == <<37, 11>>

FillFF == <<0, 255>>

\* first bytes: v3 client, v4 client, v4 client with leap 3, v2 client,
\* v4 symmetric active, v5 client, v3 server
FirstBytes == {27, 35, 227, 19, 33, 43, 28}

OddLengths == {0, 47, 49, 67, 68, 101}

Datagrams ==
  {MkData(MinPacketLen, b, FillVar, FillVar) : b \in FirstBytes}
  \cup {MkData(MinPacketLen, 35, FillFF, FillVar), MkData(MinPacketLen, 35, FillVar, FillFF)}
  \cup {MkData(n, 35, FillVar, FillVar) : n \in OddLengths}

\* what a second client sends: a v4 request, one with other header fields,
\* a symmetric-active packet
SecondClientDatagrams ==
  {MkData(MinPacketLen, 35, FillVar, FillVar), MkData(MinPacketLen, 35, FillFF, FillVar),
   MkData(MinPacketLen, 33, FillVar, FillVar)}

\* the datagrams that arrive, each with its source address
ClientMessages ==
  {[data |-> d, source |-> "::ffff:192.0.2.1"] : d \in Datagrams}
  \cup {[data |-> d, source |-> "2001:db8::2"] : d \in SecondClientDatagrams}

\* how far the clock may have moved between two readings, in 1/2^16 s:
\* not at all, two thirds of a second, 1000 seconds
Advances == {0, 43691, 1000 * Two16}

StartTimes == {Time(1700000000, 40000)}

----------------------------------------------------------------------------
(* The server loop. *)

ServerInit ==
  /\ pc = "AWAIT_DATAGRAM"
  /\ inbox = <<>>
  /\ nclient = 0
  /\ drift_start \in StartTimes
  /\ now = drift_start
  /\ source = ""
  /\ cls = NTPPacket_class
  /\ packet = NTPPacket(NTPPacket_class)
  /\ received = <<>>
  /\ stdout = <<>>
  /\ sent = <<>>
  /\ responded = <<>>

HarnessIdle ==
  /\ f_kind = "none"
  /\ f_in = <<>>
  /\ f_done = FALSE
  /\ f_out = <<>>

Init == ServerInit /\ HarnessIdle

\* a client sends a datagram to port 123; it queues in the socket buffer
ClientSend ==
  /\ pc # "CRASHED"
  /\ nclient < MaxDatagrams
  /\ \E m \in ClientMessages : inbox' = Append(inbox, m)
  /\ nclient' = nclient + 1
  /\ UNCHANGED <<pc, drift_start, now, source, packet, cls, received, stdout,
                 sent, responded>>

\* lines 170-172: recvfrom(100), the log line, NTPPacket.from_bytes; an
\* exception of from_bytes is caught nowhere and ends the process
Receive ==
  /\ pc = "AWAIT_DATAGRAM"
  /\ inbox # <<>>
  /\ LET data == Slice(Head(inbox).data, 0, RecvBufSize)
         r    == NTPPacket_from_bytes(cls, data)
     IN  /\ inbox' = Tail(inbox)
         /\ source' = Head(inbox).source
         /\ received' = Append(received, [data |-> data, source |-> Head(inbox).source])
         /\ stdout' = Append(stdout, <<Len(received) + 1, "Received">>)
         /\ packet' = IF r.ok THEN r.packet ELSE packet
         /\ pc' = IF r.ok THEN "VALIDATE" ELSE "CRASHED"
  /\ UNCHANGED <<nclient, drift_start, now, cls, sent, responded>>

\* lines 174-185: the two checks, each with its diagnostic and continue
Validate ==
  /\ pc = "VALIDATE"
  /\ IF UnsupportedVersion(packet)
     THEN /\ stdout' = Append(stdout, <<Len(received), "Unsupported NTP version.">>)
          /\ pc' = "AWAIT_DATAGRAM"
     ELSE IF NotClientRequest(packet)
     THEN /\ stdout' = Append(stdout, <<Len(received), "Not a client request.">>)
          /\ pc' = "AWAIT_DATAGRAM"
     ELSE /\ stdout' = Append(stdout, <<Len(received), "Client time:">>)
          /\ pc' = "RESPOND"
  /\ UNCHANGED <<inbox, nclient, drift_start, now, source, packet, cls, received,
                 sent, responded>>

\* lines 186-201: read the clock, build the response, encode it, send it
Respond ==
  /\ pc = "RESPOND"
  /\ \E adv \in Advances :
       LET t           == TimeAdd(now, adv)
           return_time == ReturnTime(drift_start, t)
           response    == BuildResponse(cls, packet, return_time)
           data        == NTPPacket_to_bytes(response)
       IN  /\ now' = t
           /\ sent' = IF data.ok THEN sendto(sent, data.data, source) ELSE sent
           /\ responded' =
                IF data.ok
                THEN Append(responded,
                            [req |-> Len(received), at |-> t, return_time |-> return_time])
                ELSE responded
           /\ pc' = IF data.ok THEN "AWAIT_DATAGRAM" ELSE "CRASHED"
  /\ UNCHANGED <<inbox, nclient, drift_start, source, packet, cls, received, stdout>>

ServerNext ==
  \/ ClientSend
  \/ Receive
  \/ Validate
  \/ Respond

Next == ServerNext /\ UNCHANGED <<f_kind, f_in, f_done, f_out>>

Spec == Init /\ [][Next]_vars

----------------------------------------------------------------------------
(* The codec harness: one function of the codec applied to one argument.   *)

IntParts == {<<0, 0>>, <<0, 1>>, <<25939, 61184>>, <<31829, 33151>>, <<31829, 33152>>,
             <<33706, 32384>>, <<33706, 32385>>, <<65541, 7>>}

SmallIntParts == {<<0, 0>>, <<0, 1>>, <<0, 1000>>, <<0, 65535>>, <<1, 0>>}

\* fractions 0, 1/2, 1 - 2^-33, 1 - 3*2^-34, 2^-33, 2^-34, that of 0.999995,
\* 1 - 2^-22 and 21845/65536
FracParts == {<<0, 0, 0>>, <<32768, 0, 0>>, <<65535, 65535, 2>>, <<65535, 65535, 1>>,
              <<0, 0, 2>>, <<0, 0, 1>>, <<65535, 44061, 0>>, <<65535, 64512, 0>>,
              <<21845, 0, 0>>}

RECURSIVE BitLen(_)
\* the number of bits of n >= 0
BitLen(n) == IF n = 0 THEN 0 ELSE 1 + BitLen(n \div 2)

RECURSIVE LowZeros(_)
\* the number of trailing zero bits of n > 0
LowZeros(n) == IF n % 2 = 1 THEN 0 ELSE 1 + LowZeros(n \div 2)

\* the significant bits of the integer part of x
IntBits(x) == IF x.ihi > 0 THEN 16 + BitLen(x.ihi) ELSE BitLen(x.ilo)

\* the binary places of the fraction of x
FracBits(x) ==
  IF x.fx > 0 THEN 34 - LowZeros(x.fx)
  ELSE IF x.flo > 0 THEN 32 - LowZeros(x.flo)
  ELSE IF x.fhi > 0 THEN 16 - LowZeros(x.fhi)
  ELSE 0

\* whether x is a float64: its significand has at most 53 bits
IsFloat64(x) == IntBits(x) + FracBits(x) <= 53

UnixTimestamps ==
  {x \in {Float(n, i[1], i[2], f[1], f[2], f[3]) :
            n \in BOOLEAN, i \in IntParts, f \in FracParts} : IsFloat64(x)}

FloatValues ==
  {x \in {Float(n, i[1], i[2], f[1], f[2], f[3]) :
            n \in BOOLEAN, i \in SmallIntParts, f \in FracParts} : IsFloat64(x)}

U16Values == {0, 1, 255, 256, 65535}

ShortValues == {NTPShort(a, b) : a \in U16Values, b \in U16Values}

U32Values == {Long(FALSE, h, l) : h \in {0, 1, EpochHi, Mask16}, l \in {0, EpochLo, Mask16}}

TimestampValues == {NTPTimestamp(a, b) : a \in U32Values, b \in U32Values}

\* the fields other than leap_indicator, version and mode, in two settings
PacketRest ==
  {[NTPPacket_class EXCEPT
      !.stratum = 255, !.poll = -128, !.precision = 127,
      !.root_delay = NTPShort(65535, 1), !.root_dispersion = NTPShort(256, 255),
      !.reference_identifier = XFAK,
      !.reference_timestamp = NTPTimestamp(LongEpoch, LongMaxU32),
      !.origin_timestamp = NTPTimestamp(LongMaxU32, Long(FALSE, 1, 0)),
      !.receive_timestamp = NTPTimestamp(Long(FALSE, 0, 1), LongEpoch),
      !.transmit_timestamp = NTPTimestamp(Long(FALSE, 256, 255), LongZero)],
   [NTPPacket_class EXCEPT
      !.stratum = 1, !.poll = 6, !.precision = -20,
      !.reference_identifier = <<0, 255, 128, 7>>]}

PacketValues ==
  {[r EXCEPT !.leap_indicator = l, !.version = v, !.mode = m] :
     r \in PacketRest, l \in 0..3, v \in {0, 3, 4, 7}, m \in {0, 3, 4, 7}}

Buffers ==
  {MkData(n, b, f, FillVar) :
     n \in {0, 47, 48, 49, 67, 68, 69, 100}, b \in {0, 27, 227, 255}, f \in {FillVar, FillFF}}

HarnessInputs ==
  ({"from_unix_timestamp"} \X UnixTimestamps)
  \cup ({"from_float"} \X FloatValues)
  \cup ({"short"} \X ShortValues)
  \cup ({"timestamp"} \X TimestampValues)
  \cup ({"packet"} \X PacketValues)
  \cup ({"buffer"} \X Buffers)

HarnessInit ==
  /\ ServerInit
  /\ \E i \in HarnessInputs : f_kind = i[1] /\ f_in = i[2]
  /\ f_done = FALSE
  /\ f_out = <<>>

\* NTPTimestamp.from_unix_timestamp, then to_bytes and to_unix_timestamp of it
Apply_from_unix_timestamp ==
  /\ f_kind = "from_unix_timestamp" /\ ~f_done
  /\ LET ts == NTPTimestamp_from_unix_timestamp(f_in)
     IN  f_out' = [value |-> ts,
                   bytes |-> NTPTimestamp_to_bytes(ts),
                   unix  |-> NTPTimestamp_to_unix_timestamp(ts)]
  /\ f_done' = TRUE
  /\ UNCHANGED <<f_kind, f_in>>

\* NTPShort.from_float, then to_bytes of it
Apply_from_float ==
  /\ f_kind = "from_float" /\ ~f_done
  /\ LET sh == NTPShort_from_float(f_in)
     IN  f_out' = [value |-> sh, bytes |-> NTPShort_to_bytes(sh)]
  /\ f_done' = TRUE
  /\ UNCHANGED <<f_kind, f_in>>

\* NTPShort.from_bytes(x.to_bytes())
RoundTripShort ==
  /\ f_kind = "short" /\ ~f_done
  /\ LET b == NTPShort_to_bytes(f_in)
     IN  f_out' = [bytes |-> b, back |-> NTPShort_from_bytes(b.data)]
  /\ f_done' = TRUE
  /\ UNCHANGED <<f_kind, f_in>>

\* NTPTimestamp.from_bytes(x.to_bytes())
RoundTripTimestamp ==
  /\ f_kind = "timestamp" /\ ~f_done
  /\ LET b == NTPTimestamp_to_bytes(f_in)
     IN  f_out' = [bytes |-> b, back |-> NTPTimestamp_from_bytes(b.data)]
  /\ f_done' = TRUE
  /\ UNCHANGED <<f_kind, f_in>>

\* NTPPacket.from_bytes(x.to_bytes())
RoundTripPacket ==
  /\ f_kind = "packet" /\ ~f_done
  /\ LET b == NTPPacket_to_bytes(f_in)
     IN  f_out' = [bytes |-> b, back |-> NTPPacket_from_bytes(cls, b.data)]
  /\ f_done' = TRUE
  /\ UNCHANGED <<f_kind, f_in>>

\* NTPPacket.from_bytes(b).to_bytes()
RoundTripBuffer ==
  /\ f_kind = "buffer" /\ ~f_done
  /\ LET r == NTPPacket_from_bytes(cls, f_in)
     IN  f_out' = [decoded |-> r,
                   bytes   |-> IF r.ok THEN NTPPacket_to_bytes(r.packet) ELSE StructError]
  /\ f_done' = TRUE
  /\ UNCHANGED <<f_kind, f_in>>

HarnessNext ==
  /\ \/ Apply_from_unix_timestamp
     \/ Apply_from_float
     \/ RoundTripShort
     \/ RoundTripTimestamp
     \/ RoundTripPacket
     \/ RoundTripBuffer
  /\ UNCHANGED server_vars

SpecCodec == HarnessInit /\ [][HarnessNext]_vars

----------------------------------------------------------------------------
(* What the claims speak of, read off the wire and the histories.          *)

\* version and mode of a request, from the first byte of the datagram
ReqVersion(data) == (data[1] \div 8) % 8

ReqMode(data) == data[1] % 8

\* the transmit timestamp of a request, as its eight bytes
ReqTransmit(data) == SubSeq(data, 41, 48)

\* a client request of an accepted length
ValidRequest(data) ==
  Len(data) \in {48, 68} /\ ReqVersion(data) \in {3, 4} /\ ReqMode(data) = 3

\* datagram i was answered
Replied(i) == \E k \in 1..Len(responded) : responded[k].req = i

\* datagram i was rejected with a diagnostic
Rejected(i) ==
  \E j \in 1..Len(stdout) :
    stdout[j] \in {<<i, "Unsupported NTP version.">>, <<i, "Not a client request.">>}

\* datagram i got past from_bytes
Decoded(i) == i < Len(received) \/ pc # "CRASHED"

\* the eight bytes of fromPosixTime(t) for a clock reading t >= 0:
\* seconds = (floor(t) + 2208988800) mod 2^32, fraction = (t - floor(t)) * 2^32
PosixTimeBytes(t) ==
  LET lo == (t.sec % 65536) + 32384
      hi == ((t.sec \div 65536) + 33706 + (lo \div 65536)) % 65536
  IN  <<hi \div 256, hi % 256, (lo % 65536) \div 256, lo % 256,
        t.frac \div 256, t.frac % 256, 0, 0>>

----------------------------------------------------------------------------
(* C1: a datagram that fails NtpPacket decoding is never fatal: no reply is *)
(* sent for it and the loop goes on.                                        *)
C1_DecodeFailureNotFatal ==
  \A i \in 1..Len(received) :
    ~NTPPacket_from_bytes(cls, received[i].data).ok
      => pc # "CRASHED" /\ ~Replied(i)

(* C2: NtpPacket decode accepts a buffer if and only if its length is      *)
(* exactly 48 or exactly 68.                                                *)
C2_AcceptsExactly48Or68 ==
  \A i \in 1..Len(received) :
    NTPPacket_from_bytes(cls, received[i].data).ok
      <=> Len(received[i].data) \in {48, 68}

(* C3: every response answers a request with version 3 or 4 and mode 3,    *)
(* and on the wire it has leap_indicator 0, the request's version, mode 4,  *)
(* stratum 1, poll 0, precision 0, zero root delay and dispersion, the tag  *)
(* XFAK, the request's transmit timestamp as origin timestamp, and          *)
(* fromPosixTime(drifted_time) as reference, receive and transmit           *)
(* timestamp.                                                               *)
C3_ResponseFields ==
  /\ \A i \in 1..Len(received) :
       /\ Decoded(i)
       /\ ReqVersion(received[i].data) \in {3, 4}
       /\ ReqMode(received[i].data) = 3
       /\ i < Len(received) \/ pc = "AWAIT_DATAGRAM"
       => Replied(i)
  /\ \A k \in 1..Len(sent) :
       LET req == received[responded[k].req].data
           d   == sent[k].data
           ts  == PosixTimeBytes(responded[k].return_time)
       IN  /\ ReqVersion(req) \in {3, 4}
           /\ ReqMode(req) = 3
           /\ Len(d) = 48
           /\ d[1] = 0 * 64 + ReqVersion(req) * 8 + 4
           /\ d[2] = 1
           /\ d[3] = 0
           /\ d[4] = 0
           /\ SubSeq(d, 5, 12) = <<0, 0, 0, 0, 0, 0, 0, 0>>
           /\ SubSeq(d, 13, 16) = <<88, 70, 65, 75>>
           /\ SubSeq(d, 25, 32) = ReqTransmit(req)
           /\ SubSeq(d, 17, 24) = ts
           /\ SubSeq(d, 33, 40) = ts
           /\ SubSeq(d, 41, 48) = ts

\* a version 4 request with leap indicator 3 and a non-zero transmit
\* timestamp has been answered
C3_Witness ==
  \E k \in 1..Len(sent) :
    /\ received[responded[k].req].data[1] = 227
    /\ ReqTransmit(received[responded[k].req].data) # <<0, 0, 0, 0, 0, 0, 0, 0>>
    /\ sent[k].data[1] = 36

(* C4: a decoded request whose version is not 3 or 4, or whose mode is not  *)
(* 3, is never answered and the loop returns to waiting; a decoded request  *)
(* with version 3 or 4 and mode 3 is never rejected, whatever its other     *)
(* fields.                                                                  *)
C4_RejectsOnlyVersionAndMode ==
  \A i \in 1..Len(received) :
    Decoded(i) =>
      LET data == received[i].data
          bad  == ReqVersion(data) \notin {3, 4} \/ ReqMode(data) # 3
      IN  /\ bad => /\ ~Replied(i)
                    /\ i < Len(received) => Rejected(i)
                    /\ i = Len(received) =>
                         /\ pc \in {"VALIDATE", "AWAIT_DATAGRAM"}
                         /\ pc = "AWAIT_DATAGRAM" <=> Rejected(i)
          /\ ~bad => ~Rejected(i)

\* a symmetric-active request was rejected and the loop waits again, and a
\* client request with leap indicator 3 went through
C4_Witness ==
  /\ pc = "AWAIT_DATAGRAM"
  /\ \E i \in 1..Len(received) :
       received[i].data[1] = 33 /\ Rejected(i) /\ ~Replied(i)
  /\ \E i \in 1..Len(received) :
       received[i].data[1] = 227 /\ Replied(i) /\ ~Rejected(i)

(* C5: decode(encode(x)) = x for every NTPShort, NTPTimestamp and NTPPacket *)
(* whose fields fit their widths, the first byte being                      *)
(* leap<<6 | version<<3 | mode; and for every buffer b that packet decode   *)
(* accepts, encode(decode(b)) is the first 48 bytes of b.                   *)
C5_RoundTrip ==
  f_done =>
    /\ f_kind = "short" =>
         /\ f_out.bytes.ok /\ Len(f_out.bytes.data) = 4
         /\ f_out.back.ok /\ f_out.back.value = f_in
    /\ f_kind = "timestamp" =>
         /\ f_out.bytes.ok /\ Len(f_out.bytes.data) = 8
         /\ f_out.back.ok /\ f_out.back.value = f_in
    /\ f_kind = "packet" =>
         /\ f_out.bytes.ok /\ Len(f_out.bytes.data) = 48
         /\ f_out.bytes.data[1] =
              f_in.leap_indicator * 64 + f_in.version * 8 + f_in.mode
         /\ f_out.back.ok /\ f_out.back.packet = f_in
    /\ f_kind = "buffer" /\ f_out.decoded.ok =>
         /\ f_out.bytes.ok /\ Len(f_out.bytes.data) = 48
         /\ f_out.bytes.data = SubSeq(f_in, 1, 48)

\* a 68-byte buffer with version 7 was decoded and encoded again
C5_Witness ==
  /\ f_done
  /\ f_kind = "buffer"
  /\ Len(f_in) = 68
  /\ f_in[1] = 255
  /\ f_out.decoded.ok
  /\ Len(f_out.bytes.data) = 48

----------------------------------------------------------------------------
(* floor(t) and t - floor(t) of a float argument, as the claims use them.  *)

FracIsZero(x) == x.fhi = 0 /\ x.flo = 0 /\ x.fx = 0

\* floor(x) as a long
FloorLong(x) ==
  IF ~x.neg \/ FracIsZero(x)
  THEN Long(x.neg, x.ihi, x.ilo)
  ELSE MagAdd(TRUE, Long(FALSE, x.ihi, x.ilo), Long(FALSE, 0, 1))

\* x - floor(x), as <<fhi, flo, fx>>
FloorFrac(x) ==
  IF ~x.neg \/ FracIsZero(x)
  THEN <<x.fhi, x.flo, x.fx>>
  ELSE LET b0 == IF x.fx > 0 THEN 1 ELSE 0
           b1 == IF x.flo + b0 > 0 THEN 1 ELSE 0
       IN  <<65536 - x.fhi - b1, (65536 - x.flo - b0) % 65536, (4 - x.fx) % 4>>

\* min(round((x - floor(x)) * 2^32), 2^32 - 1) as a long
FloorFraction32(x) ==
  LET f   == FloorFrac(x)
      lo1 == f[2] + (IF f[3] >= 2 THEN 1 ELSE 0)
      hi1 == f[1] + (lo1 \div 65536)
  IN  IF hi1 > 65535 THEN Long(FALSE, 65535, 65535) ELSE Long(FALSE, hi1, lo1 % 65536)

\* (floor(x) + 2208988800) mod 2^32 as a long
FloorSeconds32(x) == LongAnd32(LongAdd(FloorLong(x), Long(FALSE, 33706, 32384)))

\* floor(x) as an integer
FloorInt(x) ==
  IF ~x.neg THEN x.ihi * 65536 + x.ilo
  ELSE IF FracIsZero(x) THEN -(x.ihi * 65536 + x.ilo)
  ELSE -(x.ihi * 65536 + x.ilo) - 1

\* round((x - floor(x)) * 65536)
FloorFraction16(x) ==
  LET f == FloorFrac(x)
  IN  f[1] + (IF f[2] >= 32768 THEN 1 ELSE 0)

\* the NTPShort the claim describes: the carry applied
ShortOfFloor(x) ==
  IF FloorFraction16(x) = 65536
  THEN NTPShort(FloorInt(x) + 1, 0)
  ELSE NTPShort(FloorInt(x), FloorFraction16(x))

(* C6: for every POSIX time t, negative and non-integer ones included,     *)
(* fromPosixTime(t) has seconds = (floor(t) + 2208988800) mod 2^32 and      *)
(* fraction = min(round((t - floor(t)) * 2^32), 2^32 - 1), both in          *)
(* 0..2^32-1 so that the result can be encoded; fromPosixTime(0) is         *)
(* (2208988800, 0) and its toPosixTime is 0.                                *)
C6_FromPosixTime ==
  f_done /\ f_kind = "from_unix_timestamp" =>
    /\ f_out.value.seconds = FloorSeconds32(f_in)
    /\ f_out.value.fraction = FloorFraction32(f_in)
    /\ IsU32(f_out.value.seconds)
    /\ IsU32(f_out.value.fraction)
    /\ f_out.bytes.ok
    /\ f_in = Float(FALSE, 0, 0, 0, 0, 0) =>
         /\ f_out.value = NTPTimestamp(Long(FALSE, 33706, 32384), LongZero)
         /\ f_out.unix = Float(FALSE, 0, 0, 0, 0, 0)

C8_Drift ==
  \A k \in 1..Len(responded) :
    LET e == TimeDiff(responded[k].at, drift_start)
        d == TimeDiff(responded[k].return_time, drift_start)
    IN  /\ e >= 0
        /\ Abs(10000 * (e - d) - 4 * e) <= 5000
        /\ e = 1000 * 65536 => Abs(10 * d - 655097856) <= 5
        /\ TimeLeq(responded[k].return_time, responded[k].at)
        /\ \A j \in 1..(k - 1) :
             TimeLeq(responded[j].return_time, responded[k].return_time)

\* a response was sent exactly 1000 s after the start and reported 999.6 s,
\* after an earlier response
C8_Witness ==
  \E k \in 2..Len(responded) :
    /\ TimeDiff(responded[k].at, drift_start) = 65536000
    /\ TimeDiff(responded[k].return_time, drift_start) = 65509786
    /\ responded[k - 1].return_time # responded[k].return_time

(* C9: each received datagram causes at most one sent datagram, a valid     *)
(* client request exactly one, addressed to the source of the datagram that *)
(* triggered it and sent before the next datagram is received.              *)
C9_OneReplyPerRequest ==
  /\ Len(sent) = Len(responded)
  /\ \A k \in 1..Len(responded) :
       /\ responded[k].req \in 1..Len(received)
       /\ k <= Len(sent) => sent[k].dest = received[responded[k].req].source
       /\ \A j \in 1..(k - 1) : responded[j].req < responded[k].req
  /\ \A i \in 1..Len(received) :
       ValidRequest(received[i].data) /\ (i < Len(received) \/ pc = "AWAIT_DATAGRAM")
         => Replied(i)

\* two requests from different addresses have each been answered
C9_Witness ==
  /\ Len(sent) = 2
  /\ Len(received) = 2
  /\ sent[1].dest # sent[2].dest
  /\ sent[2].dest = received[2].source

(* C10: the response to a request is determined by the request's version   *)
(* and transmit timestamp and by the drifted time alone: two responses that *)
(* agree on these are byte-identical, whatever came before them and         *)
(* whatever the requests' other fields; and the class-level defaults of the *)
(* packet never change.                                                     *)
C10_NoStateAcrossRequests ==
  /\ cls = NTPPacket_class
  /\ \A j \in 1..Len(sent) : \A k \in 1..Len(sent) :
       LET rj == received[responded[j].req].data
           rk == received[responded[k].req].data
       IN  /\ ReqVersion(rj) = ReqVersion(rk)
           /\ ReqTransmit(rj) = ReqTransmit(rk)
           /\ responded[j].return_time = responded[k].return_time
           => sent[j].data = sent[k].data

\* two requests that differ in their other fields, the second following the
\* first, got byte-identical responses
C10_Witness ==
  \E j \in 1..Len(sent) : \E k \in 1..Len(sent) :
    LET rj == received[responded[j].req].data
        rk == received[responded[k].req].data
    IN  /\ j < k
        /\ rj # rk
        /\ rj[3] # rk[3]
        /\ ReqVersion(rj) = ReqVersion(rk)
        /\ ReqTransmit(rj) = ReqTransmit(rk)
        /\ responded[j].return_time = responded[k].return_time
        /\ sent[j].data = sent[k].data

====
